---- MODULE Spec2Model ----
(***************************************************************************)
(* Model of pykeops' generic reduction dispatch layer:                     *)
(*   - get_cuda_conv_generic (pykeops/common/cudaconv.py): the routine     *)
(*     cache and loader, with on-demand compilation                        *)
(*     (pykeops/common/compile_routines.py), called sequentially (Spec)    *)
(*     and from several threads (SpecPar);                                 *)
(*   - cuda_conv_generic (pykeops/common/cudaconv.py): shape validation,   *)
(*     backend resolution and routine invocation (SpecConv);               *)
(*   - generic_sum and pytorch_genred (pykeops/torch/generic_red.py): the  *)
(*     autograd node, its forward and its backward (SpecGrad).             *)
(* Strings that the code edits (formula, aliases) are sequences of         *)
(* one-character strings or tokens; all other strings are atoms.           *)
(***************************************************************************)
EXTENDS Integers, Sequences, FiniteSets, TLC

VARIABLES
    cache,      \* __cuda_convs_generic: dll_name -> set of backends bound
    disk,       \* build_folder: dll_name -> what a CDLL() of that file gives
    compiles,   \* dll_name -> number of compile_generic_routine invocations
    first,      \* dll_name -> the first loader call for that key and its outcome
    ncalls,     \* number of calls started so far
    later,      \* caller -> the running call is not the first one for its key
    pc,         \* caller -> position in the code
    conv,       \* caller -> arguments of the running cuda_conv_generic call
    res,        \* caller -> locals of cuda_conv_generic after lines 185-326
    req,        \* caller -> arguments of the running get_cuda_conv_generic
    dll,        \* caller -> local `dll` of get_cuda_conv_generic
    loadErr,    \* caller -> class of the error raised by the first CDLL
    log,        \* caller -> load/build events of the running loader call
    ret,        \* caller -> outcome of the running/last call
    invoked,    \* caller -> the routine invocation of line 332, if any
    nodes,      \* the autograd nodes (ctx) of pytorch_genred, in creation order
    applies     \* the pytorch_genred.apply invocations made so far

\* the state of cudaconv.py and the state of torch/generic_red.py
cvars == <<cache, disk, compiles, first, ncalls, later, pc, conv, res, req,
           dll, loadErr, log, ret, invoked>>
gvars == <<nodes, applies>>
vars == <<cache, disk, compiles, first, ncalls, later, pc, conv, res, req,
          dll, loadErr, log, ret, invoked, nodes, applies>>

(***************************************************************************)
(* Bounds and input domains                                                *)
(***************************************************************************)
MaxCalls == 3
MaxArgs == 3

Callers == {1, 2}
\* the caller of the sequential specifications
Main == CHOOSE t \in Callers : \A u \in Callers : t <= u

Backends == {"CPU", "GPU_1D_host", "GPU_2D_host", "GPU_1D_device", "GPU_2D_device"}
DeviceBackends == Backends \ {"CPU"}
SumIndexes == {-1, 0, 1, 2}
\* the sum_index values of the direct loader calls
LoaderSumIndexes == {0, 1, 2}

\* (aliases, formula, cuda_type) triples the callers use
Requests ==
    { [aliases |-> << >>,          formula |-> <<"F">>,      cuda_type |-> "float"],
      [aliases |-> << >>,          formula |-> <<"F", " ">>, cuda_type |-> "float"],
      [aliases |-> << <<"a", " ">> >>, formula |-> <<"F">>,  cuda_type |-> "float"] }

\* what ctypes.CDLL finds at build_folder + dll_name + dll_ext
\*   absent   : no such file (OSError, "not found")
\*   corrupt  : file present but not loadable (OSError of another class)
\*   nosym    : loadable, CpuConv/CpuTransConv missing
\*   hostonly : loadable, host entry points only
\*   full     : loadable, host and device entry points
DiskStates == {"absent", "corrupt", "nosym", "hostonly", "full"}

(***************************************************************************)
(* cudaconv.py lines 45-52: the cache key                                  *)
(***************************************************************************)
RECURSIVE replace_space(_)
replace_space(s) ==
    IF s = << >> THEN << >>
    ELSE IF Head(s) = " " THEN replace_space(Tail(s))
         ELSE <<Head(s)>> \o replace_space(Tail(s))

RECURSIVE join(_)
join(l) ==
    IF l = << >> THEN << >>
    ELSE IF Len(l) = 1 THEN Head(l)
         ELSE Head(l) \o <<",">> \o join(Tail(l))

\* sha256(...).hexdigest(): collision-free on the strings used here, so the
\* digest is represented by the string it was computed from
sha256(s) == s

dll_name_of(aliases, formula, cuda_type) ==
    LET f == replace_space(formula)
        a == [i \in 1..Len(aliases) |-> replace_space(aliases[i])]
    IN  sha256(join(a \o <<f>>) \o <<"_", cuda_type>>)

KeyOf(r) == dll_name_of(r.aliases, r.formula, r.cuda_type)

AllKeys == { KeyOf(r) : r \in Requests }

(***************************************************************************)
(* Values shared by the actions                                            *)
(***************************************************************************)
NoRoutine == << >>
NoReq == [aliases |-> << >>, formula |-> << >>, cuda_type |-> "", sum_index |-> 0,
          backend |-> "", via |-> "none"]
NoRet == [status |-> "none", routine |-> NoRoutine]

ReqKey(t) == KeyOf(req[t])

\* the residency test left out: every call takes the miss branch
Resident_never(c, k) == FALSE

\* line 54: `dll_name in __cuda_convs_generic`
Resident(c, k) == k \in DOMAIN c

\* Python list indexing of a two-element list [routine_i, routine_j]
ListIndexOk(s) == s \in {-2, -1, 0, 1}
Variant(s) == IF s \in {0, -2} THEN "i" ELSE "j"

\* lines 55 and 109: __cuda_convs_generic[dll_name][backend][sum_index]
Fetch(c, k, backend, s) ==
    IF backend \notin c[k] THEN [status |-> "KeyError", routine |-> NoRoutine]
    ELSE IF ~ListIndexOk(s) THEN [status |-> "IndexError", routine |-> NoRoutine]
    ELSE [status |-> "ok", routine |-> <<k, backend, Variant(s)>>]

\* ctypes.CDLL(dllabspath): the error class it raises, "none" on success
CDLLError(d) ==
    CASE d = "absent"  -> "notfound"
      [] d = "corrupt" -> "invalid"
      [] OTHER         -> "none"

\* what compile_generic_routine may leave at the dll path: cmake and make are
\* run without check=True, so a failed build returns normally and leaves the
\* path as it was
BuildResults(d) == {d, "hostonly", "full"}

NoFirst == [status |-> "none", backend |-> "", sum_index |-> 0]

\* the loader call returns or raises: back to the caller
Finish(t, r) ==
    /\ ret' = [ret EXCEPT ![t] = r]
    /\ first' = IF first[ReqKey(t)].status = "none"
                THEN [first EXCEPT ![ReqKey(t)] =
                        IF r.status = "ok"
                        THEN [status |-> "ok", backend |-> req[t].backend,
                              sum_index |-> req[t].sum_index]
                        ELSE [NoFirst EXCEPT !.status = "fail"]]
                ELSE first
    /\ pc' = [pc EXCEPT ![t] = IF r.status = "ok" /\ req[t].via = "conv"
                               THEN "invoke" ELSE "done"]

Raise(status) == [status |-> status, routine |-> NoRoutine]

(***************************************************************************)
(* get_cuda_conv_generic, cudaconv.py lines 30-109                         *)
(***************************************************************************)
\* lines 45-55: compose the key, return the cached entry on a hit
Lookup(t) ==
    /\ pc[t] = "lookup"
    /\ UNCHANGED gvars
    /\ IF Resident(cache, ReqKey(t))
       THEN Finish(t, Fetch(cache, ReqKey(t), req[t].backend, req[t].sum_index))
       ELSE /\ pc' = [pc EXCEPT ![t] = "load1"]
            /\ UNCHANGED <<ret, first>>
    /\ UNCHANGED <<cache, disk, compiles, ncalls, later, conv, res, req, dll,
                   loadErr, log, invoked>>

\* lines 61-63: first ctypes.CDLL
Load1(t) ==
    /\ pc[t] = "load1"
    /\ UNCHANGED gvars
    /\ log' = [log EXCEPT ![t] = Append(@, "load")]
    /\ LET e == CDLLError(disk[ReqKey(t)]) IN
       IF e = "none"
       THEN /\ dll' = [dll EXCEPT ![t] = disk[ReqKey(t)]]
            /\ pc' = [pc EXCEPT ![t] = "bind_cpu"]
            /\ UNCHANGED <<loadErr, ret, first>>
       ELSE \* line 63: `except OSError` catches every error CDLL raises
            /\ loadErr' = [loadErr EXCEPT ![t] = e]
            /\ pc' = [pc EXCEPT ![t] = "build"]
            /\ UNCHANGED <<dll, ret, first>>
    /\ UNCHANGED <<cache, disk, compiles, ncalls, later, conv, res, req, invoked>>

\* line 64 and compile_routines.py lines 5-22: compile_generic_routine is
\* entered and launches cmake
Build(t) ==
    /\ pc[t] = "build"
    /\ UNCHANGED gvars
    /\ compiles' = [compiles EXCEPT ![ReqKey(t)] = @ + 1]
    /\ log' = [log EXCEPT ![t] = Append(@, "build")]
    /\ \/ \* the build runs; the caller is blocked in subprocess.run
          /\ pc' = [pc EXCEPT ![t] = "building"]
          /\ UNCHANGED <<ret, first>>
       \/ \* subprocess.run raises: cmake cannot be executed
          Finish(t, Raise("FileNotFoundError"))
    /\ UNCHANGED <<cache, disk, ncalls, later, conv, res, req, dll, loadErr, invoked>>

\* compile_routines.py lines 23-25: make returns (whatever its exit status)
BuildDone(t) ==
    /\ pc[t] = "building"
    /\ UNCHANGED gvars
    /\ \E d \in BuildResults(disk[ReqKey(t)]) :
          disk' = [disk EXCEPT ![ReqKey(t)] = d]
    /\ pc' = [pc EXCEPT ![t] = "load2"]
    /\ UNCHANGED <<cache, compiles, first, ncalls, later, conv, res, req, dll,
                   loadErr, log, ret, invoked>>

\* a loader that builds again whenever the load after a build fails
Load2_retry(t) ==
    /\ pc[t] = "load2"
    /\ UNCHANGED gvars
    /\ log' = [log EXCEPT ![t] = Append(@, "load")]
    /\ IF CDLLError(disk[ReqKey(t)]) = "none"
       THEN /\ dll' = [dll EXCEPT ![t] = disk[ReqKey(t)]]
            /\ pc' = [pc EXCEPT ![t] = "bind_cpu"]
       ELSE /\ pc' = [pc EXCEPT ![t] = "build"]
            /\ UNCHANGED dll
    /\ UNCHANGED <<cache, disk, compiles, first, ncalls, later, conv, res, req,
                   loadErr, ret, invoked>>

\* line 65: second ctypes.CDLL, inside the except handler
Load2(t) ==
    /\ pc[t] = "load2"
    /\ UNCHANGED gvars
    /\ log' = [log EXCEPT ![t] = Append(@, "load")]
    /\ IF CDLLError(disk[ReqKey(t)]) = "none"
       THEN /\ dll' = [dll EXCEPT ![t] = disk[ReqKey(t)]]
            /\ pc' = [pc EXCEPT ![t] = "bind_cpu"]
            /\ UNCHANGED <<ret, first>>
       ELSE \* raised inside the except handler: nothing catches it
            /\ Finish(t, Raise("OSError"))
            /\ UNCHANGED dll
    /\ UNCHANGED <<cache, disk, compiles, ncalls, later, conv, res, req, loadErr, invoked>>

\* lines 69-76: bind the host entry points and install the routine set
BindCpu(t) ==
    /\ pc[t] = "bind_cpu"
    /\ UNCHANGED gvars
    /\ IF dll[t] = "nosym"
       THEN /\ Finish(t, Raise("AttributeError"))
            /\ UNCHANGED cache
       ELSE /\ cache' = [k \in DOMAIN cache \cup {ReqKey(t)} |->
                            IF k = ReqKey(t) THEN {"CPU"} ELSE cache[k]]
            /\ pc' = [pc EXCEPT ![t] = "bind_gpu"]
            /\ UNCHANGED <<ret, first>>
    /\ UNCHANGED <<disk, compiles, ncalls, later, conv, res, req, dll, loadErr,
                   log, invoked>>

\* lines 79-107: bind the device entry points if the binary has them
BindGpu(t) ==
    /\ pc[t] = "bind_gpu"
    /\ UNCHANGED gvars
    /\ IF dll[t] = "full"
       THEN /\ cache' = [cache EXCEPT ![ReqKey(t)] = @ \cup DeviceBackends]
            /\ pc' = [pc EXCEPT ![t] = "return"]
            /\ UNCHANGED <<ret, first>>
       ELSE /\ IF req[t].backend # "CPU"
               THEN Finish(t, Raise("ValueError_no_cuda"))
               ELSE /\ pc' = [pc EXCEPT ![t] = "return"]
                    /\ UNCHANGED <<ret, first>>
            /\ UNCHANGED cache
    /\ UNCHANGED <<disk, compiles, ncalls, later, conv, res, req, dll, loadErr,
                   log, invoked>>

\* line 109
Return(t) ==
    /\ pc[t] = "return"
    /\ UNCHANGED gvars
    /\ Finish(t, Fetch(cache, ReqKey(t), req[t].backend, req[t].sum_index))
    /\ UNCHANGED <<cache, disk, compiles, ncalls, later, conv, res, req, dll,
                   loadErr, log, invoked>>

Loader(t) ==
    \/ Lookup(t)
    \/ Load1(t)
    \/ Build(t)
    \/ BuildDone(t)
    \/ Load2(t)
    \/ BindCpu(t)
    \/ BindGpu(t)
    \/ Return(t)

(***************************************************************************)
(* cuda_conv_generic, cudaconv.py lines 113-332                            *)
(***************************************************************************)
\* a numpy array or torch tensor, as far as the code looks at it
Buf(nd, rows, cols, cuda, contig) ==
    [nd |-> nd, rows |-> rows, cols |-> cols, is_cuda |-> cuda, contiguous |-> contig]
NoBuf == Buf(0, 0, 0, FALSE, TRUE)

Sig(dim, cat) == <<dim, cat>>

NoConv == [kind |-> "none", formula |-> << >>, aliases |-> << >>, cuda_type |-> "",
           signature |-> << >>, result |-> NoBuf, args |-> << >>,
           backend |-> "", sum_index |-> 0]

Min(a, b) == IF a < b THEN a ELSE b

\* the locals after the checks; err = "none" when no check raised
Locals(err, nx, ny, variables, MemType, backend) ==
    [err |-> err, nx |-> nx, ny |-> ny, variables |-> variables,
     MemType |-> MemType, backend |-> backend]
NoRes == Locals("none", -1, -1, << >>, "none", "none")

\* the row counts of later arguments left unchecked
RowsAgree_unchecked(n, arg) == TRUE

\* lines 245 and 254: `nx == arg.shape[0]`, `ny == arg.shape[0]`
RowsAgree(n, arg) == n = arg.rows

\* lines 240-263: one iteration per pair of zip(args, signature[1:]);
\* `variables` collects the positions (in args) of the buffers kept
RECURSIVE CheckArgs(_, _, _, _, _, _)
CheckArgs(args, signature, i, nx, ny, variables) ==
    IF i > Min(Len(args), Len(signature) - 1)
    THEN Locals("none", nx, ny, variables, "none", "none")
    ELSE
      LET arg == args[i]
          sig == signature[i + 1]
          fail(e) == Locals(e, nx, ny, variables, "none", "none")
      IN
      CASE sig[2] = 0 ->
             IF arg.nd # 2 THEN fail("ValueError_2D")
             ELSE LET nx1 == IF nx = -1 THEN arg.rows ELSE nx IN
                  IF ~RowsAgree(nx1, arg) THEN Locals("ValueError_cat0_len", nx1, ny, variables, "none", "none")
                  ELSE IF sig[1] # arg.cols THEN Locals("ValueError_cat0_dim", nx1, ny, variables, "none", "none")
                  ELSE CheckArgs(args, signature, i + 1, nx1, ny, Append(variables, i))
        [] sig[2] = 1 ->
             IF arg.nd # 2 THEN fail("ValueError_2D")
             ELSE LET ny1 == IF ny = -1 THEN arg.rows ELSE ny IN
                  IF ~RowsAgree(ny1, arg) THEN Locals("ValueError_cat1_len", nx, ny1, variables, "none", "none")
                  ELSE IF sig[1] # arg.cols THEN Locals("ValueError_cat1_dim", nx, ny1, variables, "none", "none")
                  ELSE CheckArgs(args, signature, i + 1, nx, ny1, Append(variables, i))
        [] sig[2] = 2 ->
             IF sig[1] # arg.rows THEN fail("ValueError_cat2_dim")
             ELSE CheckArgs(args, signature, i + 1, nx, ny, Append(variables, i))
        [] OTHER -> CheckArgs(args, signature, i + 1, nx, ny, variables)

\* emptiness tested as `nx == 0`, which lets the initial -1 through
CheckNonEmpty_zero(nx, ny) ==
    IF nx = 0 THEN "ValueError_empty_x"
    ELSE IF ny = 0 THEN "ValueError_empty_y"
    ELSE "none"

\* lines 266-267
CheckNonEmpty(nx, ny) ==
    IF ~(nx > 0) THEN "ValueError_empty_x"
    ELSE IF ~(ny > 0) THEN "ValueError_empty_y"
    ELSE "none"

\* lines 270-283
CheckResult(sig, result, sum_index, nx, ny) ==
    IF sig[2] = 2 THEN "ValueError_param_output"
    ELSE IF result.nd # 2 THEN "ValueError_result_2D"
    ELSE IF sig[1] # result.cols THEN "ValueError_result_width"
    ELSE IF sum_index = 0 /\ sig[2] # 0 THEN "ValueError_result_not_i"
    ELSE IF sum_index = 0 /\ nx # result.rows THEN "ValueError_result_rows_x"
    ELSE IF sum_index = 1 /\ sig[2] # 1 THEN "ValueError_result_not_j"
    ELSE IF sum_index = 1 /\ ny # result.rows THEN "ValueError_result_rows_y"
    ELSE "none"

\* lines 286-289: to_ctype_pointer asserts contiguity of each buffer kept,
\* then of the result
CheckContiguous(args, variables, result) ==
    IF \E j \in 1..Len(variables) : ~args[variables[j]].contiguous
        THEN "ValueError_contiguous"
    ELSE IF ~result.contiguous THEN "ValueError_contiguous"
    ELSE "none"

\* line 302: x.is_cuda for the result and every buffer kept
VarsAreOnGpu(args, variables, result) ==
    <<result.is_cuda>> \o [j \in 1..Len(variables) |-> args[variables[j]].is_cuda]

\* the memory space taken from the result alone
MemTypeOf_result(kind, args, variables, result) ==
    IF kind = "numpy" THEN "AttributeError_is_cuda"
    ELSE IF result.is_cuda THEN "device"
    ELSE "host"

\* lines 302-308; a numpy array has no attribute is_cuda
MemTypeOf(kind, args, variables, result) ==
    LET g == VarsAreOnGpu(args, variables, result) IN
    IF kind = "numpy" THEN "AttributeError_is_cuda"
    ELSE IF \A j \in 1..Len(g) : g[j] THEN "device"
    ELSE IF ~(\E j \in 1..Len(g) : g[j]) THEN "host"
    ELSE "ValueError_mixed"

\* a resolver that lets a fully-qualified backend name through
ResolveBackend_explicit(backend, MemType) ==
    IF backend \in Backends THEN backend
    ELSE IF backend = "auto" THEN (IF MemType = "host" THEN "CPU" ELSE "GPU_1D_device")
    ELSE IF backend = "GPU" THEN (IF MemType = "host" THEN "GPU_1D_host" ELSE "GPU_1D_device")
    ELSE IF backend = "GPU_1D" THEN (IF MemType = "host" THEN "GPU_1D_host" ELSE "GPU_1D_device")
    ELSE IF backend = "GPU_2D" THEN (IF MemType = "host" THEN "GPU_2D_host" ELSE "GPU_2D_device")
    ELSE "ValueError_backend"

\* a resolver whose default GPU scheme is the 2D one
ResolveBackend_2D(backend, MemType) ==
    IF backend = "auto" THEN (IF MemType = "host" THEN "CPU" ELSE "GPU_2D_device")
    ELSE IF backend = "GPU" THEN (IF MemType = "host" THEN "GPU_2D_host" ELSE "GPU_2D_device")
    ELSE IF backend = "GPU_1D" THEN (IF MemType = "host" THEN "GPU_1D_host" ELSE "GPU_1D_device")
    ELSE IF backend = "GPU_2D" THEN (IF MemType = "host" THEN "GPU_2D_host" ELSE "GPU_2D_device")
    ELSE "ValueError_backend"

\* lines 313-326
ResolveBackend(backend, MemType) ==
    IF backend = "auto" THEN (IF MemType = "host" THEN "CPU" ELSE "GPU_1D_device")
    ELSE IF backend = "GPU" THEN (IF MemType = "host" THEN "GPU_1D_host" ELSE "GPU_1D_device")
    ELSE IF backend = "GPU_1D" THEN (IF MemType = "host" THEN "GPU_1D_host" ELSE "GPU_1D_device")
    ELSE IF backend = "GPU_2D" THEN (IF MemType = "host" THEN "GPU_2D_host" ELSE "GPU_2D_device")
    ELSE "ValueError_backend"

IsError(x) == x \notin (Backends \cup {"host", "device", "none"})

\* lines 185-326: every check before the loader is called, in code order
Checks(c) ==
    IF c.kind \notin {"numpy", "torch"} THEN Locals("TypeError", -1, -1, << >>, "none", "none")
    ELSE
    LET a == CheckArgs(c.args, c.signature, 1, -1, -1, << >>) IN
    IF a.err # "none" THEN a
    ELSE
    LET e1 == CheckNonEmpty(a.nx, a.ny)
        e2 == CheckResult(c.signature[1], c.result, c.sum_index, a.nx, a.ny)
        e3 == CheckContiguous(c.args, a.variables, c.result)
        m  == MemTypeOf(c.kind, c.args, a.variables, c.result)
        b  == ResolveBackend(c.backend, m)
    IN
    IF e1 # "none" THEN Locals(e1, a.nx, a.ny, a.variables, "none", "none")
    ELSE IF e2 # "none" THEN Locals(e2, a.nx, a.ny, a.variables, "none", "none")
    ELSE IF e3 # "none" THEN Locals(e3, a.nx, a.ny, a.variables, "none", "none")
    ELSE IF IsError(m) THEN Locals(m, a.nx, a.ny, a.variables, "none", "none")
    ELSE IF IsError(b) THEN Locals(b, a.nx, a.ny, a.variables, m, "none")
    ELSE Locals("none", a.nx, a.ny, a.variables, m, b)

NoInvoke == [routine |-> NoRoutine, nx |-> -1, ny |-> -1, vars_p |-> << >>]

\* the loader asked for the routine before the outcome of the checks is
\* looked at
ConvCall_loader_first(t) ==
    /\ pc[t] = "conv"
    /\ UNCHANGED gvars
    /\ LET r == Checks(conv[t]) IN
       /\ res' = [res EXCEPT ![t] = r]
       /\ req' = [req EXCEPT ![t] =
                    [aliases |-> conv[t].aliases, formula |-> conv[t].formula,
                     cuda_type |-> conv[t].cuda_type,
                     sum_index |-> conv[t].sum_index,
                     backend |-> r.backend, via |-> "conv"]]
       /\ pc' = [pc EXCEPT ![t] = "lookup"]
       /\ UNCHANGED ret
    /\ later' = [later EXCEPT ![t] = first[KeyOf(conv[t])].status # "none"]
    /\ UNCHANGED <<cache, disk, compiles, first, ncalls, conv, dll,
                   loadErr, log, invoked>>

\* lines 185-331: run the checks, then ask the loader for the routine
ConvCall(t) ==
    /\ pc[t] = "conv"
    /\ UNCHANGED gvars
    /\ LET r == Checks(conv[t]) IN
       /\ res' = [res EXCEPT ![t] = r]
       /\ IF r.err = "none"
          THEN /\ req' = [req EXCEPT ![t] =
                            [aliases |-> conv[t].aliases, formula |-> conv[t].formula,
                             cuda_type |-> conv[t].cuda_type,
                             sum_index |-> conv[t].sum_index,
                             backend |-> r.backend, via |-> "conv"]]
               /\ pc' = [pc EXCEPT ![t] = "lookup"]
               /\ UNCHANGED ret
          ELSE /\ ret' = [ret EXCEPT ![t] = Raise(r.err)]
               /\ pc' = [pc EXCEPT ![t] = "done"]
               /\ UNCHANGED req
    /\ later' = [later EXCEPT ![t] = first[KeyOf(conv[t])].status # "none"]
    /\ UNCHANGED <<cache, disk, compiles, first, ncalls, conv, dll,
                   loadErr, log, invoked>>

\* line 332: routine(nx, ny, result_p, vars_p)
Invoke(t) ==
    /\ pc[t] = "invoke"
    /\ UNCHANGED gvars
    /\ invoked' = [invoked EXCEPT ![t] =
                     [routine |-> ret[t].routine, nx |-> res[t].nx, ny |-> res[t].ny,
                      vars_p |-> res[t].variables]]
    /\ pc' = [pc EXCEPT ![t] = "done"]
    /\ UNCHANGED <<cache, disk, compiles, first, ncalls, later, conv, res, req,
                   dll, loadErr, log, ret>>

(***************************************************************************)
(* Inputs of cuda_conv_generic                                             *)
(***************************************************************************)
Hints == {"auto", "GPU", "GPU_1D", "GPU_2D", "CPU", "GPU_1D_host", "GPU_2D_host",
          "GPU_1D_device", "GPU_2D_device", "TPU"}
FullHints == Backends

\* an argument together with its signature entry
Operand(sig, buf) == [sig |-> sig, buf |-> buf]

\* operands whose shape may or may not fit: host, contiguous buffers
ShapeOperands ==
    { Operand(Sig(1, 0), Buf(2, r, 1, FALSE, TRUE)) : r \in 0..2 }
    \cup { Operand(Sig(1, 0), Buf(2, 1, 2, FALSE, TRUE)),
           Operand(Sig(1, 0), Buf(1, 1, 0, FALSE, TRUE)) }
    \cup { Operand(Sig(2, 0), Buf(2, 2, 2, FALSE, TRUE)) }
    \cup { Operand(Sig(2, 1), Buf(2, r, 2, FALSE, TRUE)) : r \in 0..2 }
    \cup { Operand(Sig(2, 1), Buf(2, 1, 1, FALSE, TRUE)),
           Operand(Sig(2, 1), Buf(1, 1, 0, FALSE, TRUE)) }
    \cup { Operand(Sig(1, 2), Buf(1, 1, 0, FALSE, TRUE)),
           Operand(Sig(1, 2), Buf(1, 2, 0, FALSE, TRUE)) }

\* operands of fitting shape (and one empty one), in either memory space,
\* contiguous or not
PlacedOperands(cudas, contigs) ==
    { Operand(Sig(1, 0), Buf(2, r, 1, g, c)) : r \in {0, 1}, g \in cudas, c \in contigs }
    \cup { Operand(Sig(2, 1), Buf(2, 1, 2, g, c)) : g \in cudas, c \in contigs }
    \cup { Operand(Sig(1, 2), Buf(1, 1, 0, g, c)) : g \in cudas, c \in contigs }

SeqsUpTo(S, n) == UNION { [1..m -> S] : m \in 0..n }

\* the call cuda_conv_generic(formula, signature, result, *args, backend=...,
\* aliases=..., sum_index=..., cuda_type=...) built from a list of operands
Call(kind, sig0, result, ops, backend, sum_index) ==
    [kind |-> kind, formula |-> <<"F", " ">>, aliases |-> << >>, cuda_type |-> "float",
     signature |-> <<sig0>> \o [i \in 1..Len(ops) |-> ops[i].sig],
     result |-> result,
     args |-> [i \in 1..Len(ops) |-> ops[i].buf],
     backend |-> backend, sum_index |-> sum_index]

\* the single call of SpecConv, with the binary found on disk for its key
StartConv(c, d) ==
    /\ conv = [t \in Callers |-> IF t = Main THEN c ELSE NoConv]
    /\ disk = [k \in AllKeys |-> IF k = KeyOf(c) THEN d ELSE "absent"]

\* calls that vary the shapes, the output category and sum_index
ShapeCalls ==
    \E ops \in SeqsUpTo(ShapeOperands, MaxArgs) :
       \/ \E cat \in 0..1, r \in 1..2, s \in SumIndexes :
             StartConv(Call("torch", Sig(1, cat), Buf(2, r, 1, FALSE, TRUE), ops, "auto", s),
                       "full")
       \/ \E s \in {-1, 0} :
             StartConv(Call("torch", Sig(1, 2), Buf(2, 1, 1, FALSE, TRUE), ops, "auto", s),
                       "full")
       \/ \E cat \in 0..1 :
             \/ StartConv(Call("torch", Sig(1, cat), Buf(2, 1, 2, FALSE, TRUE), ops, "auto", cat),
                          "full")
             \/ StartConv(Call("torch", Sig(1, cat), Buf(1, 1, 0, FALSE, TRUE), ops, "auto", cat),
                          "full")

\* calls that vary the memory space of each buffer and the backend hint
PlacedCalls ==
    \E g \in BOOLEAN, h \in Hints, d \in {"absent", "hostonly", "full"},
       ops \in SeqsUpTo(PlacedOperands(BOOLEAN, {TRUE}), MaxArgs) :
       StartConv(Call("torch", Sig(1, 0), Buf(2, 1, 1, g, TRUE), ops, h, 0), d)

\* calls that vary the contiguity of each buffer and the kind of array
ContiguityCalls ==
    \E kind \in {"numpy", "torch", "list"}, c \in BOOLEAN, h \in {"auto", "GPU_2D", "CPU"},
       ops \in SeqsUpTo(PlacedOperands({FALSE}, BOOLEAN), MaxArgs) :
       StartConv(Call(kind, Sig(1, 0), Buf(2, 1, 1, FALSE, c), ops, h, 0), "full")

\* operands for the calls below: one per category, and one whose signature
\* entry has a category the code does not know
ArityOperands ==
    { Operand(Sig(1, 0), Buf(2, 1, 1, FALSE, TRUE)),
      Operand(Sig(2, 1), Buf(2, 1, 2, FALSE, TRUE)),
      Operand(Sig(1, 2), Buf(1, 1, 0, FALSE, TRUE)),
      Operand(Sig(1, 3), Buf(2, 1, 1, FALSE, TRUE)) }

\* calls that pass fewer or more arguments than the signature declares
\* operands, or whose signature has an entry of unknown category
ArityCalls ==
    \E ops \in SeqsUpTo(ArityOperands, MaxArgs), drop \in 0..1, extra \in 0..1 :
       LET c == Call("torch", Sig(1, 0), Buf(2, 1, 1, FALSE, TRUE), ops, "auto", 0) IN
       StartConv([c EXCEPT !.args = SubSeq(@, 1, Len(@) - drop)
                                      \o [i \in 1..extra |-> Buf(2, 1, 1, FALSE, TRUE)]],
                 "full")

(***************************************************************************)
(* Specifications                                                          *)
(***************************************************************************)
Idle(t) == pc[t] \in {"idle", "done"}

InitCommon ==
    /\ cache = << >>
    /\ compiles = [k \in AllKeys |-> 0]
    /\ first = [k \in AllKeys |-> NoFirst]
    /\ res = [t \in Callers |-> NoRes]
    /\ req = [t \in Callers |-> NoReq]
    /\ dll = [t \in Callers |-> "none"]
    /\ loadErr = [t \in Callers |-> "none"]
    /\ log = [t \in Callers |-> << >>]
    /\ ret = [t \in Callers |-> NoRet]
    /\ later = [t \in Callers |-> FALSE]
    /\ invoked = [t \in Callers |-> NoInvoke]
    /\ nodes = << >>
    /\ applies = << >>

\* a caller starts get_cuda_conv_generic(aliases, formula, cuda_type,
\* sum_index, backend) with arguments drawn from the given sets
LoaderBeginWith(t, requests, sum_indexes, backends) ==
    /\ Idle(t)
    /\ UNCHANGED gvars
    /\ ncalls < MaxCalls
    /\ ncalls' = ncalls + 1
    /\ \E r \in requests, s \in sum_indexes, b \in backends :
          /\ req' = [req EXCEPT ![t] =
                       [aliases |-> r.aliases, formula |-> r.formula,
                        cuda_type |-> r.cuda_type, sum_index |-> s, backend |-> b,
                        via |-> "direct"]]
          /\ later' = [later EXCEPT ![t] = first[KeyOf(r)].status # "none"]
    /\ pc' = [pc EXCEPT ![t] = "lookup"]
    /\ dll' = [dll EXCEPT ![t] = "none"]
    /\ loadErr' = [loadErr EXCEPT ![t] = "none"]
    /\ log' = [log EXCEPT ![t] = << >>]
    /\ ret' = [ret EXCEPT ![t] = NoRet]
    /\ UNCHANGED <<cache, disk, compiles, first, conv, res, invoked>>

LoaderBegin(t) == LoaderBeginWith(t, Requests, LoaderSumIndexes, Backends)

\* the loader called directly, one call after the other
Init ==
    /\ InitCommon
    /\ disk \in [AllKeys -> DiskStates]
    /\ ncalls = 0
    /\ pc = [t \in Callers |-> "idle"]
    /\ conv = [t \in Callers |-> NoConv]

Next ==
    \/ LoaderBegin(Main)
    \/ Loader(Main)

Spec == Init /\ [][Next]_vars

\* one call of cuda_conv_generic
InitConv ==
    /\ InitCommon
    /\ ncalls = 1
    /\ pc = [t \in Callers |-> IF t = Main THEN "conv" ELSE "idle"]
    /\ \/ ShapeCalls
       \/ PlacedCalls
       \/ ContiguityCalls
       \/ ArityCalls

NextConv ==
    \/ ConvCall(Main)
    \/ Loader(Main)
    \/ Invoke(Main)

SpecConv == InitConv /\ [][NextConv]_vars

\* the loader called from several threads: the callers interleave at every
\* step of get_cuda_conv_generic; they ask for one formula, with either
\* list index and with a host or a device backend
ParRequests == { r \in Requests : r.aliases = << >> /\ Len(r.formula) = 1 }
ParBackends == {"CPU", "GPU_1D_device"}
ParDiskStates == {"absent", "hostonly", "full"}

ParBegin(t) == LoaderBeginWith(t, ParRequests, {0, 1}, ParBackends)

InitPar ==
    /\ InitCommon
    /\ \E d \in ParDiskStates : disk = [k \in AllKeys |-> d]
    /\ ncalls = 0
    /\ pc = [t \in Callers |-> "idle"]
    /\ conv = [t \in Callers |-> NoConv]

NextPar == \E t \in Callers : ParBegin(t) \/ Loader(t)

SpecPar == InitPar /\ [][NextPar]_vars

(***************************************************************************)
(* pykeops/torch/generic_red.py: generic_sum and the autograd node         *)
(* pytorch_genred.  Python strings of this file are sequences of tokens.   *)
(***************************************************************************)
MaxOrder == 2

\* a Python value together with its type
Val(type, val) == [type |-> type, val |-> val]
None == Val("none", << >>)
PyStr(s) == Val("str", s)
PyInt(n) == Val("int", n)
PyList(l) == Val("list", l)
Tensor(id, cuda, rg) ==
    Val("tensor", [id |-> id, is_cuda |-> cuda, requires_grad |-> rg])
IsTensor(v) == v.type = "tensor"

\* str() of a natural number
Digits == <<"0", "1", "2", "3", "4", "5", "6", "7", "8", "9">>
RECURSIVE str(_)
str(n) ==
    IF n < Len(Digits) THEN <<Digits[n + 1]>>
    ELSE str(n \div Len(Digits)) \o <<Digits[(n % Len(Digits)) + 1]>>

\* lines 67 and 78: "Var(" + str(ind) + "," + str(dim) + "," + str(cat) + ")"
VarRef(ind, dim, cat) ==
    <<"Var(">> \o str(ind) \o <<",">> \o str(dim) \o <<",">> \o str(cat) \o <<")">>

\* line 79: "Grad(" + formula + "," + var + "," + eta + ")"
GradFormula(formula, var, eta) ==
    <<"Grad(">> \o formula \o <<",">> \o var \o <<",">> \o eta \o <<")">>

NoKeywords == << >>

\* line 31: *args collects every positional value after the third
StarArgs(pos) == SubSeq(pos, 4, Len(pos))

Unbound == [err |-> "none", formula |-> None, aliases |-> None, signature |-> None,
            args |-> << >>, sum_index |-> None, backend |-> None]

\* line 31: how Python binds a call forward(ctx, *pos, **kw) to
\*   forward(ctx, formula, aliases, signature, *args, sum_index, backend):
\* the first three positional values are formula, aliases and signature,
\* *args takes every further positional value, and sum_index and backend,
\* declared after *args, can only be passed by name
BindForward(pos, kw) ==
    IF Len(pos) < 3 THEN [Unbound EXCEPT !.err = "TypeError_missing_positional"]
    ELSE IF ~({"sum_index", "backend"} \subseteq DOMAIN kw)
         THEN [Unbound EXCEPT !.err = "TypeError_missing_keyword_only"]
    ELSE [err |-> "none", formula |-> pos[1], aliases |-> pos[2],
          signature |-> pos[3], args |-> StarArgs(pos),
          sum_index |-> kw.sum_index, backend |-> kw.backend]

\* ctx.needs_input_grad: one flag per input of the forward call
needs_input_grad(inputs) ==
    [k \in 1..Len(inputs) |-> IsTensor(inputs[k]) /\ inputs[k].val.requires_grad]

Outcome(status, result, reductions) ==
    [status |-> status, result |-> result, reductions |-> reductions]

\* line 47: genred(formula, aliases, *vars_p, sum_index=..., backend=...);
\* vars_p are the arrays of the tensors themselves (no copy), `out` names the
\* array the reduction returns
genred(formula, aliases, vars_p, sum_index, backend) ==
    [formula |-> formula, aliases |-> aliases, vars_p |-> vars_p,
     sum_index |-> sum_index, backend |-> backend, out |-> Len(vars_p) + 1]

\* lines 43-48: the body of forward after the ctx has been filled
forward(b) ==
    IF b.args = << >> THEN Outcome("IndexError", None, << >>)
    ELSE IF ~IsTensor(b.args[1]) THEN Outcome("AttributeError_is_cuda", None, << >>)
    ELSE IF b.args[1].val.is_cuda
         THEN \* line 44 reads vars_p, which only line 46 assigns
              Outcome("UnboundLocalError_vars_p", None, << >>)
    ELSE IF \E i \in 1..Len(b.args) : ~IsTensor(b.args[i])
         THEN Outcome("AttributeError_data", None, << >>)
    ELSE IF \E i \in 1..Len(b.args) : b.args[i].val.is_cuda
         THEN Outcome("TypeError_numpy", None, << >>)
    ELSE LET r == genred(b.formula, b.aliases, b.args, b.sum_index, b.backend) IN
         \* torch.from_numpy shares the array it is given
         Outcome("ok", Tensor(r.out, FALSE, FALSE), <<r>>)

NoBwd == [status |-> "none", G |-> None, grads |-> << >>, out |-> << >>]

\* lines 36-48: the node a bound forward call leaves behind, with what the
\* call was given (inputs), what it returned or raised (fwd) and the
\* reductions it ran
MakeNode(order, inputs, b) ==
    LET f == forward(b) IN
    [order |-> order, inputs |-> inputs,
     needs_input_grad |-> needs_input_grad(inputs),
     saved_tensors |-> b.args, backend |-> b.backend, aliases |-> b.aliases,
     formula |-> b.formula, signature |-> b.signature, sum_index |-> b.sum_index,
     fwd |-> [status |-> f.status, result |-> f.result],
     reductions |-> f.reductions, bwd |-> NoBwd]

\* pytorch_genred.apply(*inputs): torch calls forward(ctx, *inputs), every
\* input by position
apply(inputs, order) ==
    LET b == BindForward(inputs, NoKeywords) IN
    IF b.err # "none" THEN [status |-> b.err, result |-> None, node |-> << >>]
    ELSE LET n == MakeNode(order, inputs, b) IN
         [status |-> n.fwd.status, result |-> n.fwd.result, node |-> <<n>>]

\* a record of one apply invocation: `by` is the node whose backward made it
\* (0: generic_sum.__call__), `var` the variable differentiated (-1: none)
Applied(by, var, inputs, status) ==
    [by |-> by, var |-> var, inputs |-> inputs, status |-> status]

\* lines 94-95: ones(1, grad.shape[0]) @ grad, then view(-1)
OnesContraction(grad, dim) ==
    Val("tensor", [of |-> grad, via |-> "ones_matmul_view", shape |-> <<dim>>])

\* lines 60-62: nvars, one per entry of signature[1:]
CountVars(signature) == Len(Tail(signature))

\* lines 67-106: eta, then the loop over signature[1:]; i is the 1-based
\* position in signature[1:], so var_ind = i - 1 and arg_ind = 5 + i - 1
RECURSIVE BackwardLoop(_, _, _, _, _, _, _)
BackwardLoop(k, c, G, i, grads, calls, created) ==
    LET signature == c.signature.val
        nvars == CountVars(signature)
        eta == VarRef(nvars, signature[1][1], signature[1][2])
        var_ind == i - 1
        arg_ind == 5 + i - 1
        stop(status) == [status |-> status, grads |-> grads, calls |-> calls,
                         created |-> created]
    IN
    IF i > Len(Tail(signature)) THEN stop("ok")
    ELSE IF arg_ind + 1 > Len(c.needs_input_grad) THEN stop("IndexError")
    ELSE IF ~c.needs_input_grad[arg_ind + 1]
         THEN BackwardLoop(k, c, G, i + 1, Append(grads, None), calls, created)
    ELSE
      LET sig == signature[i + 1]
          var == VarRef(var_ind, sig[1], sig[2])
          formula_g == GradFormula(c.formula.val, var, eta)
          args_g == c.saved_tensors \o <<G>>
          sumindex_g == IF sig[2] = 2 THEN 1 ELSE sig[2]
          signature_g == IF sig[2] = 2
                         THEN <<Sig(sig[1], 1)>> \o Tail(signature) \o <<signature[1]>>
                         ELSE <<sig>> \o Tail(signature) \o <<signature[1]>>
          \* lines 88 and 102: genconv(backend, aliases, formula_g,
          \*                           signature_g, sumindex_g, *args_g)
          inputs == <<c.backend, c.aliases, PyStr(formula_g), PyList(signature_g),
                      PyInt(sumindex_g)>> \o args_g
          a == apply(inputs, c.order + 1)
          calls1 == Append(calls, Applied(k, var_ind, inputs, a.status))
          grad == IF sig[2] = 2 THEN OnesContraction(a.result, sig[1]) ELSE a.result
      IN
      IF a.status # "ok"
      THEN [status |-> a.status, grads |-> grads, calls |-> calls1,
            created |-> created \o a.node]
      ELSE BackwardLoop(k, c, G, i + 1, Append(grads, grad), calls1,
                        created \o a.node)

\* lines 51-109
backward(k, c, G) ==
    LET r == BackwardLoop(k, c, G, 1, << >>, << >>, << >>) IN
    [status |-> r.status, calls |-> r.calls, created |-> r.created,
     bwd |-> [status |-> r.status, G |-> G, grads |-> r.grads,
              out |-> IF r.status = "ok"
                      THEN <<None, None, None, None, None>> \o r.grads
                      ELSE << >>]]

(***************************************************************************)
(* Inputs and actions of the autograd node                                 *)
(***************************************************************************)
Categories == {0, 1, 2}
\* the dimension declared for an operand of each category
OperandDim(cat) == cat + 1
GenredHints == {"auto", "GPU_2D"}
GenredFormula == <<"F">>

\* the tensors of a call: ids 1..n, all in one memory space
TensorsOf(ops, cuda) == [i \in 1..Len(ops) |-> Tensor(i, cuda, ops[i][2])]
SignatureOf(ops, sum_index) ==
    <<Sig(1, sum_index)>> \o [i \in 1..Len(ops) |-> Sig(OperandDim(ops[i][1]), ops[i][1])]

\* the three leading inputs of forward
Leading(ops, sum_index) ==
    <<PyStr(GenredFormula), PyList(<< >>), PyList(SignatureOf(ops, sum_index))>>

\* lines 13-14: generic_sum.__call__(*args, backend=...) hands everything to
\* pytorch_genred.apply by position
GenericSumCall ==
    /\ applies = << >> /\ nodes = << >>
    /\ \E n \in 1..MaxArgs, cuda \in BOOLEAN, s \in {0, 1}, h \in GenredHints :
       \E ops \in [1..n -> Categories \X BOOLEAN] :
          LET inputs == Leading(ops, s) \o TensorsOf(ops, cuda)
                            \o <<PyInt(s), PyStr(<<h>>)>>
              a == apply(inputs, 1)
          IN /\ applies' = Append(applies, Applied(0, -1, inputs, a.status))
             /\ nodes' = nodes \o a.node
    /\ UNCHANGED cvars

\* lines 30-48: forward called with sum_index and backend passed by name;
\* the node's inputs are forward's parameters in the order of line 31
Forward ==
    /\ applies = << >> /\ nodes = << >>
    /\ \E n \in 1..MaxArgs, cuda \in BOOLEAN, s \in {0, 1}, h \in GenredHints :
       \E ops \in [1..n -> Categories \X BOOLEAN] :
          LET pos == Leading(ops, s) \o TensorsOf(ops, cuda)
              kw == [sum_index |-> PyInt(s), backend |-> PyStr(<<h>>)]
              b == BindForward(pos, kw)
          IN nodes' = Append(nodes, MakeNode(1, pos \o <<kw.sum_index, kw.backend>>, b))
    /\ UNCHANGED <<cvars, applies>>

\* lines 50-109: autograd runs backward on a node whose forward returned,
\* with the gradient G of its output
Backward ==
    /\ \E k \in 1..Len(nodes), rg \in BOOLEAN :
          /\ nodes[k].fwd.status = "ok"
          /\ nodes[k].bwd.status = "none"
          /\ nodes[k].order <= MaxOrder
          /\ LET G == Tensor(Len(nodes[k].saved_tensors) + 2, FALSE, rg)
                 r == backward(k, nodes[k], G)
             IN /\ nodes' = [nodes EXCEPT ![k].bwd = r.bwd] \o r.created
                /\ applies' = applies \o r.calls
    /\ UNCHANGED cvars

InitGrad ==
    /\ InitCommon
    /\ disk = [k \in AllKeys |-> "absent"]
    /\ ncalls = 0
    /\ pc = [t \in Callers |-> "idle"]
    /\ conv = [t \in Callers |-> NoConv]

NextGrad ==
    \/ GenericSumCall
    \/ Forward
    \/ Backward

SpecGrad == InitGrad /\ [][NextGrad]_vars

(***************************************************************************)
(* Properties of the loader, get_cuda_conv_generic                         *)
(***************************************************************************)
Direct(t) == req[t].via = "direct"
Done(t) == pc[t] = "done"

\* the running call of t repeats (key, backend, sum_index) of the first call
\* for its key, and that first call returned a routine
RepeatsFirstOk(t) ==
    /\ req[t].via # "none"
    /\ later[t]
    /\ first[ReqKey(t)].status = "ok"
    /\ first[ReqKey(t)].backend = req[t].backend
    /\ first[ReqKey(t)].sum_index = req[t].sum_index

\* C1: when the first call for a key returned a routine, a later call with
\* the same arguments performs no load and no compilation and returns the
\* entry point of the cached routine set for its (backend, sum_index); the
\* key is compiled at most once over the whole sequential run.
C1_SecondCallHitsCache ==
    /\ \A k \in AllKeys : first[k].status = "ok" => compiles[k] <= 1 /\ k \in DOMAIN cache
    /\ \A t \in Callers :
          RepeatsFirstOk(t) =>
             /\ log[t] = << >>
             /\ pc[t] \in {"lookup", "done", "invoke"}
             /\ pc[t] # "lookup" =>
                   ret[t] = [status |-> "ok",
                             routine |-> <<ReqKey(t), req[t].backend,
                                           Variant(req[t].sum_index)>>]

\* a repeated call has returned, for a key that was compiled by its first call
C1_Witness ==
    \E t \in Callers :
       /\ RepeatsFirstOk(t) /\ Done(t) /\ ret[t].status = "ok"
       /\ compiles[ReqKey(t)] = 1

\* the binary of the key lacks the device entry points
HostOnlyKey(k) == disk[k] = "hostonly"

\* C2: for a key whose binary lacks the device entry points, every call that
\* requests a device backend fails with 'Cuda routines are not available',
\* on the call that loads the binary and on every later call.
C2_DeviceBackendAlwaysUnsupported ==
    \A t \in Callers :
       (Done(t) /\ Direct(t) /\ req[t].backend \in DeviceBackends
          /\ HostOnlyKey(ReqKey(t)) /\ ReqKey(t) \in DOMAIN cache)
       => ret[t].status = "ValueError_no_cuda"

\* C9: on a cache miss the compiler is invoked only after a 'not found' load
\* error; any other load error surfaces to the caller with no compilation
\* and nothing installed in the cache.
C9_CompileOnlyWhenNotFound ==
    \A t \in Callers :
       /\ (\E i \in 1..Len(log[t]) : log[t][i] = "build") => loadErr[t] = "notfound"
       /\ loadErr[t] = "invalid" =>
             /\ pc[t] = "done" /\ ret[t].status = "OSError"
             /\ log[t] = <<"load">>

IsPrefix(s, u) == Len(s) <= Len(u) /\ \A i \in 1..Len(s) : s[i] = u[i]

\* the second load of the running call failed
SecondLoadFailed(t) == Len(log[t]) >= 3 /\ dll[t] = "none"

\* C10: within one call the loader loads, then (only when that load failed)
\* builds, then loads again, and goes no further: at most one build, at most
\* two loads, the build between them; a failure of the second load is
\* raised to the caller with no further build or load.
C10_LoadBuildLoadOnce ==
    \A t \in Callers :
       /\ IsPrefix(log[t], <<"load", "build", "load">>)
       /\ pc[t] = "build" => loadErr[t] # "none" /\ log[t] = <<"load">>
       /\ SecondLoadFailed(t) => pc[t] = "done" /\ ret[t].status = "OSError"

\* a call ended by the failure of its second load
C10_Witness ==
    \E t \in Callers :
       /\ log[t] = <<"load", "build", "load">> /\ SecondLoadFailed(t)
       /\ Done(t) /\ ret[t].status = "OSError"

(***************************************************************************)
(* Properties of cuda_conv_generic                                         *)
(***************************************************************************)
\* the checks of the call of t have run
Ran(t) == conv[t].kind # "none" /\ pc[t] # "conv"

Failed(t) == Done(t) /\ ret[t].status \notin {"ok", "none"}

\* nothing beyond the checks happened: no loader call, no routine invoked
NothingCalled(t) == req[t] = NoReq /\ log[t] = << >> /\ invoked[t] = NoInvoke

\* positions of the arguments paired with a signature entry, by category
Paired(c) == 1..Min(Len(c.args), Len(c.signature) - 1)
OfCat(c, cat) == { i \in Paired(c) : c.signature[i + 1][2] = cat }
KeptArgs(c) == OfCat(c, 0) \cup OfCat(c, 1) \cup OfCat(c, 2)

\* the buffers of the call: the result and the arguments handed to a routine
BuffersOf(c) == {c.result} \cup { c.args[i] : i \in KeptArgs(c) }
Mixed(c) == \E b1, b2 \in BuffersOf(c) : b1.is_cuda /\ ~b2.is_cuda
SpaceOf(c) == IF c.result.is_cuda THEN "device" ELSE "host"

\* the same call with every buffer moved to the host
OnHost(c) ==
    [c EXCEPT !.result = [c.result EXCEPT !.is_cuda = FALSE],
              !.args = [i \in 1..Len(c.args) |-> [c.args[i] EXCEPT !.is_cuda = FALSE]]]

WithHint(c, h) == [c EXCEPT !.backend = h]

\* valid inputs residing in one memory space: with the hint "auto" the call
\* passes every check
ValidOneSpace(c) == Checks(WithHint(c, "auto")).err = "none"

ShortHints == {"auto", "GPU", "GPU_1D", "GPU_2D"}

\* C3 as stated: a fully-qualified hint on valid inputs is the resolved
\* backend and the backend requested from the loader, with no configuration
\* error.
C3_ExplicitHintWins ==
    \A t \in Callers :
       (Ran(t) /\ conv[t].backend \in FullHints /\ ValidOneSpace(conv[t]))
       => /\ res[t].backend = conv[t].backend
          /\ req[t].backend = conv[t].backend
          /\ ret[t].status \notin {"ValueError_backend", "ValueError_mixed"}

\* C3 amended: a fully-qualified hint on valid inputs is rejected with
\* 'Invalid backend specified'; no backend is resolved and the loader is not
\* called.
C3_ExplicitHintRejected ==
    \A t \in Callers :
       (Ran(t) /\ conv[t].backend \in FullHints /\ ValidOneSpace(conv[t]))
       => /\ Done(t) /\ ret[t] = Raise("ValueError_backend")
          /\ res[t].backend = "none"
          /\ NothingCalled(t)

\* a valid call with a fully-qualified hint has been rejected
C3_Witness ==
    \E t \in Callers :
       /\ Ran(t) /\ conv[t].backend = "GPU_2D_device" /\ ValidOneSpace(conv[t])
       /\ SpaceOf(conv[t]) = "device"
       /\ ret[t].status = "ValueError_backend"

ExpectedBackend(hint, space) ==
    CASE hint = "auto"   /\ space = "host"   -> "CPU"
      [] hint = "auto"   /\ space = "device" -> "GPU_1D_device"
      [] hint = "GPU"    /\ space = "host"   -> "GPU_1D_host"
      [] hint = "GPU"    /\ space = "device" -> "GPU_1D_device"
      [] hint = "GPU_1D" /\ space = "host"   -> "GPU_1D_host"
      [] hint = "GPU_1D" /\ space = "device" -> "GPU_1D_device"
      [] hint = "GPU_2D" /\ space = "host"   -> "GPU_2D_host"
      [] hint = "GPU_2D" /\ space = "device" -> "GPU_2D_device"
      [] OTHER -> "none"

\* C4: for the short hints the resolved backend is the one the table gives
\* for (hint, memory space), and the backend handed to the loader is always
\* one of the five concrete backends.
C4_ShortHintTable ==
    \A t \in Callers :
       /\ (Ran(t) /\ conv[t].backend \in ShortHints /\ ValidOneSpace(conv[t]))
          => /\ res[t].err = "none"
             /\ ~Mixed(conv[t])
             /\ res[t].backend = ExpectedBackend(conv[t].backend, SpaceOf(conv[t]))
             /\ req[t].backend = res[t].backend
       /\ req[t].via = "conv" => req[t].backend \in Backends /\ req[t].backend = res[t].backend

\* a device-resident call with hint GPU_2D has invoked its routine
C4_Witness ==
    \E t \in Callers :
       /\ Ran(t) /\ conv[t].backend = "GPU_2D" /\ SpaceOf(conv[t]) = "device"
       /\ res[t].backend = "GPU_2D_device"
       /\ invoked[t] # NoInvoke /\ invoked[t].routine[2] = "GPU_2D_device"

\* C5 as stated: every call with buffers in both memory spaces raises the
\* mixed-memory error; no backend resolved, no loader call, no invocation.
C5_MixedAlwaysConfigError ==
    \A t \in Callers :
       (Ran(t) /\ Mixed(conv[t]))
       => /\ ret[t].status = "ValueError_mixed"
          /\ res[t].backend = "none"
          /\ NothingCalled(t)

\* every check that precedes the memory-space test passes: the same call
\* with all buffers on the host is accepted
PassesBeforeMemType(c) == Checks(WithHint(OnHost(c), "auto")).err = "none"

EmptyErrors == {"ValueError_empty_x", "ValueError_empty_y"}

\* the errors of the checks made before the memory-space test
ArgErrors == {"ValueError_2D", "ValueError_cat0_len", "ValueError_cat0_dim",
              "ValueError_cat1_len", "ValueError_cat1_dim", "ValueError_cat2_dim"}
ResultErrors == {"ValueError_param_output", "ValueError_result_2D",
                 "ValueError_result_width", "ValueError_result_not_i",
                 "ValueError_result_rows_x", "ValueError_result_not_j",
                 "ValueError_result_rows_y"}

\* C5 amended: a call with buffers in both memory spaces always raises, with
\* no backend resolved, no loader call and no invocation; the error is the
\* mixed-memory one whenever the checks made before it pass, and the error
\* of one of those checks otherwise.
C5_MixedAlwaysRejected ==
    \A t \in Callers :
       (Ran(t) /\ Mixed(conv[t]))
       => /\ Failed(t)
          /\ res[t].backend = "none"
          /\ NothingCalled(t)
          /\ IF PassesBeforeMemType(conv[t])
             THEN ret[t].status = "ValueError_mixed"
             ELSE ret[t].status \in ArgErrors \cup EmptyErrors \cup ResultErrors
                                      \cup {"ValueError_contiguous"}

\* a call that is well-formed except for its mixed buffers has been rejected
C5_Witness ==
    \E t \in Callers :
       /\ Ran(t) /\ Mixed(conv[t]) /\ PassesBeforeMemType(conv[t])
       /\ ~conv[t].result.is_cuda
       /\ ret[t].status = "ValueError_mixed"

\* some category-0 or category-1 argument has zero rows
ZeroRows(c) == \E i \in OfCat(c, 0) \cup OfCat(c, 1) : c.args[i].rows = 0

\* C6 as stated: a zero-row category-0/1 argument always gives the
\* empty-input error; a routine is only invoked with nx > 0 and ny > 0.
C6_ZeroRowsAlwaysEmptyError ==
    \A t \in Callers :
       /\ (Ran(t) /\ ZeroRows(conv[t]))
          => ret[t].status \in EmptyErrors /\ invoked[t] = NoInvoke
       /\ invoked[t] # NoInvoke => invoked[t].nx > 0 /\ invoked[t].ny > 0

\* the per-argument checks of lines 240-263 all pass
ArgChecksPass(c) ==
    /\ c.kind \in {"numpy", "torch"}
    /\ CheckArgs(c.args, c.signature, 1, -1, -1, << >>).err = "none"

\* C6 amended: a call with a zero-row category-0/1 argument, or with no
\* category-0 or no category-1 argument, always raises before the loader is
\* called; the error is the empty-input one whenever the per-argument checks
\* made before it pass, and the error of one of those checks otherwise; a
\* routine is only invoked with nx > 0 and ny > 0.
C6_ZeroRowsAlwaysRejected ==
    \A t \in Callers :
       /\ (Ran(t) /\ (ZeroRows(conv[t]) \/ OfCat(conv[t], 0) = {}
                                         \/ OfCat(conv[t], 1) = {}))
          => /\ Failed(t)
             /\ NothingCalled(t)
             /\ IF ArgChecksPass(conv[t])
                THEN ret[t].status \in EmptyErrors
                ELSE ret[t].status \in ArgErrors \cup {"TypeError"}
       /\ invoked[t] # NoInvoke => invoked[t].nx > 0 /\ invoked[t].ny > 0

\* a call with a zero-row argument has been rejected as empty
C6_Witness ==
    \E t \in Callers :
       /\ Ran(t) /\ ZeroRows(conv[t]) /\ ArgChecksPass(conv[t])
       /\ OfCat(conv[t], 0) # {} /\ OfCat(conv[t], 1) # {}
       /\ ret[t].status \in EmptyErrors

\* the call with operands i and j exchanged (argument and signature entry)
Swap(c, i, j) ==
    [c EXCEPT !.args = [@ EXCEPT ![i] = c.args[j], ![j] = c.args[i]],
              !.signature = [@ EXCEPT ![i + 1] = c.signature[j + 1],
                                      ![j + 1] = c.signature[i + 1]]]

\* C7: in an accepted call nx is the row count of every category-0 argument
\* and ny that of every category-1 argument; exchanging two category-0
\* operands changes neither the acceptance of the call nor nx.
C7_RowCountsAndPermutation ==
    \A t \in Callers :
       Ran(t) =>
          /\ res[t].err = "none" =>
                /\ \A i \in OfCat(conv[t], 0) : conv[t].args[i].rows = res[t].nx
                /\ \A i \in OfCat(conv[t], 1) : conv[t].args[i].rows = res[t].ny
          /\ \A i, j \in OfCat(conv[t], 0) :
                LET r2 == Checks(Swap(conv[t], i, j)) IN
                /\ (r2.err = "none") <=> (res[t].err = "none")
                /\ res[t].err = "none" => r2.nx = res[t].nx /\ r2.ny = res[t].ny

\* an accepted call with two different category-0 operands has run
C7_Witness ==
    \E t \in Callers :
       /\ Ran(t) /\ res[t].err = "none" /\ invoked[t] # NoInvoke
       /\ \E i, j \in OfCat(conv[t], 0) :
             /\ conv[t].signature[i + 1] # conv[t].signature[j + 1]
             /\ conv[t].args[i] # conv[t].args[j]
       /\ res[t].nx = 2 /\ res[t].ny = 1

\* C8: when the routine is invoked the result is 2D, as wide as signature[0]
\* says, with nx rows for output category 0 and ny rows for category 1, for
\* every sum_index; an output category 2 is always rejected.
C8_ResultShapeAtInvocation ==
    \A t \in Callers :
       /\ invoked[t] # NoInvoke =>
             LET c == conv[t] IN
             /\ c.result.nd = 2
             /\ c.result.cols = c.signature[1][1]
             /\ c.signature[1][2] = 0 => c.result.rows = invoked[t].nx
             /\ c.signature[1][2] = 1 => c.result.rows = invoked[t].ny
       /\ (Ran(t) /\ conv[t].signature[1][2] = 2) => Failed(t) /\ NothingCalled(t)

\* C18: whenever a routine is invoked, the argument-pointer table has one
\* entry per signature operand other than the result, the k-th entry being
\* the k-th positional argument; no call with fewer or more arguments than
\* operands, or with an entry of a category other than 0, 1, 2, reaches the
\* routine with a shorter or shifted table.
C18_PointerTableFollowsSignature ==
    \A t \in Callers :
       invoked[t] # NoInvoke =>
          LET v == invoked[t].vars_p IN
          /\ Len(v) = Len(conv[t].signature) - 1
          /\ \A k \in 1..Len(v) : v[k] = k

\* the errors of the checks made before the routine is asked for
PreInvocationErrors ==
    ArgErrors \cup EmptyErrors \cup ResultErrors
        \cup {"ValueError_contiguous", "ValueError_mixed", "ValueError_backend"}

\* nothing of the loader has run or changed
LoaderUntouched(t) ==
    /\ cache = << >>
    /\ \A k \in AllKeys : compiles[k] = 0
    /\ dll[t] = "none" /\ loadErr[t] = "none" /\ log[t] = << >>

\* C20: a call that fails a pre-invocation check (2D, row count, dimension,
\* empty cloud, result shape or category, contiguity, mixed memory, backend
\* hint) raises that error with the loader not consulted: no load, no
\* compilation, no routine invocation, and the routine cache unchanged; and
\* these errors are raised in no other situation.
C20_FailedCheckLeavesNoTrace ==
    \A t \in Callers :
       /\ (Ran(t) /\ Checks(conv[t]).err \in PreInvocationErrors)
          => /\ Done(t) /\ ret[t] = Raise(Checks(conv[t]).err)
             /\ NothingCalled(t)
             /\ LoaderUntouched(t)
       /\ ret[t].status \in PreInvocationErrors
          => NothingCalled(t) /\ LoaderUntouched(t)

\* a device-resident call with an invalid hint, for a formula whose binary
\* is not built, has been rejected
C20_Witness ==
    \E t \in Callers :
       /\ Failed(t) /\ ret[t].status = "ValueError_backend"
       /\ disk[KeyOf(conv[t])] = "absent"
       /\ conv[t].result.is_cuda

(***************************************************************************)
(* Properties of the autograd node, pytorch_genred                         *)
(***************************************************************************)
\* backward has returned its tuple for node k
Returned(k) == nodes[k].bwd.status = "ok"
\* backward has run on node k: it returned or raised
BackwardRan(k) == nodes[k].bwd.status # "none"

\* the tensor arguments of node k are its inputs 4 .. Len - 2 (line 31);
\* SlotOf(i) is the place of args[i - 1] among forward's inputs
TensorCount(k) == Len(nodes[k].saved_tensors)
SlotOf(i) == 3 + i
RequiresGrad(k, i) == nodes[k].saved_tensors[i].val.requires_grad

\* the gradient calls backward made on node k for its i-th tensor argument
GradCalls(k, i) ==
    { j \in 1..Len(applies) : applies[j].by = k /\ applies[j].var = i - 1 }

\* C11: the tuple backward returns has one slot per input of forward, in
\* forward's input order: the slot of each tensor argument holds that
\* argument's gradient, or the no-gradient marker when it needs none, and
\* the slots of formula, aliases, signature, sum_index and backend hold the
\* marker.
C11_BackwardSlotsFollowForwardInputs ==
    \A k \in 1..Len(nodes) :
       Returned(k) =>
          LET out == nodes[k].bwd.out
              n == TensorCount(k)
          IN /\ Len(out) = Len(nodes[k].inputs)
             /\ \A i \in 1..n :
                   IF RequiresGrad(k, i) THEN IsTensor(out[SlotOf(i)])
                   ELSE out[SlotOf(i)] = None
             /\ \A p \in {1, 2, 3, n + 4, n + 5} : out[p] = None

\* C12: for every tensor input of the forward call: when it requires no
\* gradient its slot is the marker and no gradient reduction is invoked for
\* it; when it requires one, exactly one gradient reduction is invoked for
\* it (never more, and exactly one once backward has returned).
C12_GradientExactlyWhereRequired ==
    \A k \in 1..Len(nodes) :
       BackwardRan(k) =>
          \A i \in 1..TensorCount(k) :
             IF RequiresGrad(k, i)
             THEN /\ Cardinality(GradCalls(k, i)) <= 1
                  /\ Returned(k) => Cardinality(GradCalls(k, i)) = 1
             ELSE /\ GradCalls(k, i) = {}
                  /\ Returned(k) => nodes[k].bwd.out[SlotOf(i)] = None

\* what backward on node c intends for the variable var (0-based)
GradSig(c, var) ==
    LET sig == c.signature.val[var + 2] IN
    IF sig[2] = 2 THEN Sig(sig[1], 1) ELSE sig
GradSumIndex(c, var) ==
    LET sig == c.signature.val[var + 2] IN
    IF sig[2] = 2 THEN 1 ELSE sig[2]
GradSignature(c, var) ==
    <<GradSig(c, var)>> \o Tail(c.signature.val) \o <<c.signature.val[1]>>
GradString(c, var) ==
    LET signature == c.signature.val
        sig == signature[var + 2]
    IN GradFormula(c.formula.val, VarRef(var, sig[1], sig[2]),
                   VarRef(Len(c.saved_tensors), signature[1][1], signature[1][2]))

\* C13: every gradient call backward issues is received by forward with
\* each value in its role: the Grad(...) string as formula, the aliases as
\* aliases, the gradient signature as signature, args + (G,) as the tensor
\* arguments, the gradient sum-index as sum_index, the backend as backend.
C13_GradientCallRoles ==
    \A j \in 1..Len(applies) :
       applies[j].by > 0 =>
          LET c == nodes[applies[j].by]
              var == applies[j].var
              b == BindForward(applies[j].inputs, NoKeywords)
          IN /\ b.err = "none"
             /\ b.formula = PyStr(GradString(c, var))
             /\ b.aliases = c.aliases
             /\ b.signature = PyList(GradSignature(c, var))
             /\ b.args = c.saved_tensors \o <<c.bwd.G>>
             /\ b.sum_index = PyInt(GradSumIndex(c, var))
             /\ b.backend = c.backend

\* C14: for every input backward differentiates: the gradient call carries
\* sum-index 1 and result signature (d, 1) for a category-2 input of
\* dimension d, and the input's own category otherwise; backward returns,
\* and its entry for that input is a buffer, of shape (1, d) through the
\* all-ones contraction for a category-2 input.
C14_GradientSumIndexAndShape ==
    \A j \in 1..Len(applies) :
       applies[j].by > 0 =>
          LET k == applies[j].by
              c == nodes[k]
              var == applies[j].var
              sig == c.signature.val[var + 2]
              inputs == applies[j].inputs
          IN /\ inputs[5] = PyInt(IF sig[2] = 2 THEN 1 ELSE sig[2])
             /\ inputs[4].val[1] = (IF sig[2] = 2 THEN Sig(sig[1], 1) ELSE sig)
             /\ Returned(k)
             /\ IsTensor(c.bwd.grads[var + 1])
             /\ sig[2] = 2 =>
                   /\ c.bwd.grads[var + 1].val.via = "ones_matmul_view"
                   /\ c.bwd.grads[var + 1].val.shape = <<1, sig[1]>>

\* C15: forward, for host-resident and device-resident tensors alike, keeps
\* formula, aliases, signature, sum_index, backend and the input tensors
\* themselves in the node, runs exactly one reduction and returns the buffer
\* that reduction produced.
C15_ForwardRetainsAndReducesOnce ==
    \A k \in 1..Len(nodes) :
       LET c == nodes[k]
           n == Len(c.inputs)
       IN /\ c.formula = c.inputs[1]
          /\ c.aliases = c.inputs[2]
          /\ c.signature = c.inputs[3]
          /\ c.saved_tensors = SubSeq(c.inputs, 4, n - 2)
          /\ c.sum_index = c.inputs[n - 1]
          /\ c.backend = c.inputs[n]
          /\ c.fwd.status = "ok"
          /\ Len(c.reductions) = 1
          /\ c.reductions[1].vars_p = c.saved_tensors
          /\ IsTensor(c.fwd.result)
          /\ c.fwd.result.val.id = c.reductions[1].out

Compiling(t) == pc[t] = "building"

\* C16: at most one compilation per cache key is in flight at any time, in
\* every interleaving of the callers.
C16_OneCompilationInFlight ==
    \A t, u \in Callers :
       (Compiling(t) /\ Compiling(u) /\ ReqKey(t) = ReqKey(u)) => t = u

\* the call of t found its key resident at line 54
FoundResident(t) == Direct(t) /\ Done(t) /\ log[t] = << >>

\* the binary of key k has had every entry point since the start
AlwaysFull(k) == disk[k] = "full" /\ compiles[k] = 0

\* C17: in every interleaving, a caller that finds the key resident gets the
\* entry point for its (backend, sum_index) whenever the binary provides
\* the backend; no caller sees a routine set with the host entry points
\* installed and the device ones still missing.
C17_ResidentEntryComplete ==
    \A t \in Callers :
       (FoundResident(t) /\ AlwaysFull(ReqKey(t)))
       => ret[t] = [status |-> "ok",
                    routine |-> <<ReqKey(t), req[t].backend, Variant(req[t].sum_index)>>]

====
